---- MODULE Spec2Model ----
(***************************************************************************)
(* Facility booking admission (Booking.create), owner cancel, staff status *)
(* update and the slot generator (Facility.getAvailableSlots) of the       *)
(* leisure-club backend, over a PostgreSQL store at READ COMMITTED.        *)
(*                                                                         *)
(* Instants are minutes since 00:00 of day 0; the server and the database  *)
(* session share one time zone.  A createBooking call is a process that    *)
(* takes one step per awaited query of its transaction; cancel, status     *)
(* update and getAvailableSlots issue a single statement and are one step. *)
(***************************************************************************)
EXTENDS Integers, Sequences, FiniteSets, TLC

VARIABLES
  bookings,          \* committed rows of table bookings, in commit order (id = index)
  facilities,        \* table facilities: id -> row
  memberships,       \* memberships JOIN membership_types, in created_at order
  overlapTrigger,    \* is trigger check_overlapping_bookings installed
  now,               \* the instant NOW() / moment() / Joi 'now'
  pc,                \* per request handler: the query it awaits next
  req,               \* per request handler: bookingData of the call in progress
  facility,          \* per request handler: local `facility` row
  membership,        \* per request handler: local `membership` row
  inserted,          \* per request handler: rows written by its open transaction
  locked,            \* per request handler: ids of rows it holds FOR UPDATE
  err,               \* per request handler: the Error thrown inside the transaction
  resp,              \* per request handler: last HTTP response of createBooking
  slotsResp,         \* last response of getAvailableSlots
  httpResp           \* last response of cancelBooking, updateBookingStatus or getBooking

vars == <<bookings, facilities, memberships, overlapTrigger, now, pc, req,
          facility, membership, inserted, locked, err, resp, slotsResp, httpResp>>

dbVars == <<facilities, memberships, overlapTrigger, now>>
txVars == <<pc, req, facility, membership, inserted, locked, err, resp>>

(***************************************************************************)
(* Bounds of the model                                                     *)
(***************************************************************************)
MaxBookings == 2       \* committed booking rows
MaxSlotIter == 6       \* iterations of the slot loop that are followed

Procs == {"p1", "p2"}

None == [none |-> TRUE]

(***************************************************************************)
(* Time: moment(...).format, DATE(...), Date#setHours, 'HH:MM:SS' strings  *)
(***************************************************************************)
MinutesPerDay == 24 * 60

\* DATE(start_time), moment(t).format('YYYY-MM-DD'): the calendar day of t
DateOf(t) == t \div MinutesPerDay

\* moment(t).format('HH:mm:ss') as its three zero-padded fields
FormatHHmmss(t) == << (t % MinutesPerDay) \div 60, (t % MinutesPerDay) % 60, 0 >>

\* JavaScript `a < b` on two zero-padded 'HH:mm:ss' strings
StrLess(a, b) ==
  \/ a[1] < b[1]
  \/ a[1] = b[1] /\ a[2] < b[2]
  \/ a[1] = b[1] /\ a[2] = b[2] /\ a[3] < b[3]

\* new Date(date); setHours(h, m, 0, 0) where [h, m] = hours.split(':').map(Number)
SetHours(date, hhmmss) == date * MinutesPerDay + hhmmss[1] * 60 + hhmmss[2]

\* moment(end).diff(moment(start), 'minutes')
DiffMinutes(e, s) == e - s

\* moment().startOf('day')
StartOfToday == DateOf(now) * MinutesPerDay

\* variant: part days count as whole days
DiffDays_RoundUp(t) ==
  IF t >= StartOfToday THEN (t - StartOfToday + MinutesPerDay - 1) \div MinutesPerDay
  ELSE 0 - ((StartOfToday - t) \div MinutesPerDay)

\* moment(t).diff(moment().startOf('day'), 'days'): whole days, truncated toward zero
DiffDays(t) ==
  IF t >= StartOfToday THEN (t - StartOfToday) \div MinutesPerDay
  ELSE 0 - ((StartOfToday - t) \div MinutesPerDay)

(***************************************************************************)
(* Queries of Booking.create                                               *)
(***************************************************************************)
BookingIds == 1..Len(bookings)

\* variant: the first two disjuncts with closed ends
ConflictsWith_ClosedEnds(b, f, s, e) ==
  /\ b.facility_id = f
  /\ b.status \in {"confirmed", "pending"}
  /\ \/ b.start_time <= s /\ b.end_time >= s
     \/ b.start_time <= e /\ b.end_time >= e
     \/ b.start_time >= s /\ b.end_time <= e

\* variant: the WHERE clause without the facility filter
ConflictsWith_AnyFacility(b, f, s, e) ==
  /\ b.status \in {"confirmed", "pending"}
  /\ \/ b.start_time <= s /\ b.end_time > s
     \/ b.start_time < e /\ b.end_time >= e
     \/ b.start_time >= s /\ b.end_time <= e

\* variant: the WHERE clause without the status filter
ConflictsWith_AnyStatus(b, f, s, e) ==
  /\ b.facility_id = f
  /\ \/ b.start_time <= s /\ b.end_time > s
     \/ b.start_time < e /\ b.end_time >= e
     \/ b.start_time >= s /\ b.end_time <= e

\* WHERE clause of availabilityQuery for row b and parameters $1 = f, $2 = s, $3 = e
ConflictsWith(b, f, s, e) ==
  /\ b.facility_id = f
  /\ b.status \in {"confirmed", "pending"}
  /\ \/ b.start_time <= s /\ b.end_time > s
     \/ b.start_time < e /\ b.end_time >= e
     \/ b.start_time >= s /\ b.end_time <= e

\* rows the transaction of p sees: committed rows (its own insert follows all queries)
ConflictingBookings(f, s, e) ==
  {i \in BookingIds : ConflictsWith(bookings[i], f, s, e)}

\* rows held FOR UPDATE by a transaction other than p
LockedByOther(p) == UNION {locked[q] : q \in Procs \ {p}}

\* variant: the facility query without the status filter
FacilityRows_AnyStatus(f) ==
  IF f \in DOMAIN facilities THEN {facilities[f]} ELSE {}

\* facilityQuery: WHERE id = $1 AND status = 'available'
FacilityRows(f) ==
  IF f \in DOMAIN facilities /\ facilities[f].status = "available"
  THEN {facilities[f]} ELSE {}

\* variant: the membership query without the status filter
ActiveMembershipIdx_AnyStatus(u) ==
  {i \in 1..Len(memberships) :
     /\ memberships[i].user_id = u
     /\ memberships[i].end_date >= DateOf(now)}

\* membershipQuery: active, end_date >= CURRENT_DATE, ORDER BY created_at DESC LIMIT 1
ActiveMembershipIdx(u) ==
  {i \in 1..Len(memberships) :
     /\ memberships[i].user_id = u
     /\ memberships[i].status = "active"
     /\ memberships[i].end_date >= DateOf(now)}

\* variant: ORDER BY created_at ASC, the oldest active membership
MembershipRows_Oldest(u) ==
  IF ActiveMembershipIdx(u) = {} THEN {}
  ELSE {memberships[CHOOSE i \in ActiveMembershipIdx(u) :
                      \A j \in ActiveMembershipIdx(u) : i <= j]}

\* the row of membershipQuery: ORDER BY m.created_at DESC LIMIT 1
MembershipRows(u) ==
  IF ActiveMembershipIdx(u) = {} THEN {}
  ELSE {memberships[CHOOSE i \in ActiveMembershipIdx(u) :
                      \A j \in ActiveMembershipIdx(u) : j <= i]}

\* dailyBookingsQuery: COUNT(*) of the user's confirmed/pending rows on the date
\* variant: the count without the status filter
DailyBookingsCount_AnyStatus(u, date) ==
  Cardinality({i \in BookingIds :
     /\ bookings[i].user_id = u
     /\ DateOf(bookings[i].start_time) = date})

DailyBookingsCount(u, date) ==
  Cardinality({i \in BookingIds :
     /\ bookings[i].user_id = u
     /\ DateOf(bookings[i].start_time) = date
     /\ bookings[i].status \in {"confirmed", "pending"}})

\* prevent_overlapping_bookings(): the EXISTS test of the row trigger for NEW = nw
\* (selfId = 0 for an INSERT, whose row is not in the table yet)
TriggerRaises(nw, selfId) ==
  /\ overlapTrigger
  /\ \E i \in BookingIds :
       /\ i # selfId
       /\ bookings[i].facility_id = nw.facility_id
       /\ bookings[i].status \in {"confirmed", "completed"}
       /\ \/ bookings[i].start_time <= nw.start_time /\ bookings[i].end_time > nw.start_time
          \/ bookings[i].start_time < nw.end_time /\ bookings[i].end_time >= nw.end_time
          \/ bookings[i].start_time >= nw.start_time /\ bookings[i].end_time <= nw.end_time

(***************************************************************************)
(* The stored configuration                                                *)
(***************************************************************************)
\* facilities rows (operating hours as the TIME columns print: HH:MM:SS)
FacilityCatalog ==
  [f1 |-> [type |-> "tennis_court", status |-> "available",
           operating_hours_start |-> <<8, 0, 0>>, operating_hours_end |-> <<10, 0, 0>>,
           booking_duration_minutes |-> 60, booking_buffer_minutes |-> 0],
   f2 |-> [type |-> "swimming_pool", status |-> "available",
           operating_hours_start |-> <<8, 0, 0>>, operating_hours_end |-> <<10, 0, 0>>,
           booking_duration_minutes |-> 30, booking_buffer_minutes |-> 15],
   f3 |-> [type |-> "gym", status |-> "maintenance",
           operating_hours_start |-> <<8, 0, 0>>, operating_hours_end |-> <<10, 0, 0>>,
           booking_duration_minutes |-> 60, booking_buffer_minutes |-> 15]]

\* memberships joined with their membership_types, oldest first
MembershipDirectory ==
  << [user_id |-> "u1", status |-> "active", end_date |-> 30,
      facilities_access |-> {"tennis_court", "swimming_pool", "gym"},
      max_bookings_per_day |-> 2, max_booking_days_ahead |-> 1],
     [user_id |-> "u2", status |-> "active", end_date |-> 30,
      facilities_access |-> {"tennis_court", "gym"},
      max_bookings_per_day |-> 1, max_booking_days_ahead |-> 1],
     [user_id |-> "u3", status |-> "expired", end_date |-> 30,
      facilities_access |-> {"tennis_court", "swimming_pool", "gym"},
      max_bookings_per_day |-> 2, max_booking_days_ahead |-> 1],
     [user_id |-> "u4", status |-> "active", end_date |-> -1,
      facilities_access |-> {"tennis_court", "swimming_pool", "gym"},
      max_bookings_per_day |-> 2, max_booking_days_ahead |-> 1] >>

Statuses == {"confirmed", "cancelled", "completed", "no_show"}

(***************************************************************************)
(* BookingController.createBooking and Booking.create                      *)
(***************************************************************************)
InFlight == {q \in Procs : pc[q] # "idle"}

\* the transaction callback throws: the remaining queries are skipped
Throw(p, e) ==
  /\ err' = [err EXCEPT ![p] = e]
  /\ pc' = [pc EXCEPT ![p] = "rollback"]

\* bookingSchema: startTime >= 'now', endTime >= startTime
SchemaValid(s, e) == s >= now /\ e >= s

\* POST /api/bookings: validate the body, then Booking.create opens its transaction
CreateBooking(p, u, f, s, e) ==
  /\ pc[p] = "idle"
  /\ Len(bookings) + Cardinality(InFlight) < MaxBookings
  /\ IF SchemaValid(s, e)
     THEN /\ pc' = [pc EXCEPT ![p] = "availabilityQuery"]
          /\ req' = [req EXCEPT ![p] = [userId |-> u, facilityId |-> f,
                                        startTime |-> s, endTime |-> e]]
          /\ resp' = [resp EXCEPT ![p] = None]
     ELSE /\ resp' = [resp EXCEPT ![p] =
                 [status |-> 400, error |-> "validation",
                  req |-> [userId |-> u, facilityId |-> f, startTime |-> s, endTime |-> e]]]
          /\ UNCHANGED <<pc, req>>
  /\ UNCHANGED <<bookings, dbVars, facility, membership, inserted, locked, err, slotsResp, httpResp>>

\* SELECT id FROM bookings WHERE ... FOR UPDATE; waits while a matching row is locked
AvailabilityQuery(p) ==
  /\ pc[p] = "availabilityQuery"
  /\ LET rows == ConflictingBookings(req[p].facilityId, req[p].startTime, req[p].endTime) IN
       /\ rows \cap LockedByOther(p) = {}
       /\ locked' = [locked EXCEPT ![p] = rows]
       /\ IF Cardinality(rows) > 0
          THEN Throw(p, "conflict")
          ELSE /\ pc' = [pc EXCEPT ![p] = "facilityQuery"]
               /\ UNCHANGED err
  /\ UNCHANGED <<bookings, dbVars, req, facility, membership, inserted, resp, slotsResp, httpResp>>

\* variant: the duration check rejects only bookings shorter than the slot
FacilityQuery_MinDuration(p) ==
  /\ pc[p] = "facilityQuery"
  /\ LET rows == FacilityRows(req[p].facilityId) IN
       IF rows = {}
       THEN Throw(p, "facility") /\ UNCHANGED facility
       ELSE LET fac == CHOOSE r \in rows : TRUE
                bookingDuration == DiffMinutes(req[p].endTime, req[p].startTime)
                bookingTime == FormatHHmmss(req[p].startTime) IN
            /\ facility' = [facility EXCEPT ![p] = fac]
            /\ IF bookingDuration < fac.booking_duration_minutes
               THEN Throw(p, "duration")
               ELSE IF \/ StrLess(bookingTime, fac.operating_hours_start)
                       \/ StrLess(fac.operating_hours_end, bookingTime)
                    THEN Throw(p, "hours")
                    ELSE /\ pc' = [pc EXCEPT ![p] = "membershipQuery"]
                         /\ UNCHANGED err
  /\ UNCHANGED <<bookings, dbVars, req, membership, inserted, locked, resp, slotsResp, httpResp>>

\* variant: the operating-hours check runs before the duration check
FacilityQuery_HoursFirst(p) ==
  /\ pc[p] = "facilityQuery"
  /\ LET rows == FacilityRows(req[p].facilityId) IN
       IF rows = {}
       THEN Throw(p, "facility") /\ UNCHANGED facility
       ELSE LET fac == CHOOSE r \in rows : TRUE
                bookingDuration == DiffMinutes(req[p].endTime, req[p].startTime)
                bookingTime == FormatHHmmss(req[p].startTime) IN
            /\ facility' = [facility EXCEPT ![p] = fac]
            /\ IF \/ StrLess(bookingTime, fac.operating_hours_start)
                  \/ StrLess(fac.operating_hours_end, bookingTime)
               THEN Throw(p, "hours")
               ELSE IF bookingDuration # fac.booking_duration_minutes
                    THEN Throw(p, "duration")
                    ELSE /\ pc' = [pc EXCEPT ![p] = "membershipQuery"]
                         /\ UNCHANGED err
  /\ UNCHANGED <<bookings, dbVars, req, membership, inserted, locked, resp, slotsResp, httpResp>>

\* facilityQuery, then the duration and operating-hours checks
FacilityQuery(p) ==
  /\ pc[p] = "facilityQuery"
  /\ LET rows == FacilityRows(req[p].facilityId) IN
       IF rows = {}
       THEN Throw(p, "facility") /\ UNCHANGED facility
       ELSE LET fac == CHOOSE r \in rows : TRUE
                bookingDuration == DiffMinutes(req[p].endTime, req[p].startTime)
                bookingTime == FormatHHmmss(req[p].startTime) IN
            /\ facility' = [facility EXCEPT ![p] = fac]
            /\ IF bookingDuration # fac.booking_duration_minutes
               THEN Throw(p, "duration")
               ELSE IF \/ StrLess(bookingTime, fac.operating_hours_start)
                       \/ StrLess(fac.operating_hours_end, bookingTime)
                    THEN Throw(p, "hours")
                    ELSE /\ pc' = [pc EXCEPT ![p] = "membershipQuery"]
                         /\ UNCHANGED err
  /\ UNCHANGED <<bookings, dbVars, req, membership, inserted, locked, resp, slotsResp, httpResp>>

\* membershipQuery
MembershipQuery(p) ==
  /\ pc[p] = "membershipQuery"
  /\ LET rows == MembershipRows(req[p].userId) IN
       IF rows = {}
       THEN Throw(p, "membership") /\ UNCHANGED membership
       ELSE /\ membership' = [membership EXCEPT ![p] = CHOOSE r \in rows : TRUE]
            /\ pc' = [pc EXCEPT ![p] = "facilityTypeQuery"]
            /\ UNCHANGED err
  /\ UNCHANGED <<bookings, dbVars, req, facility, inserted, locked, resp, slotsResp, httpResp>>

\* facilityTypeQuery, then facilities_access.includes(facilityType)
FacilityTypeQuery(p) ==
  /\ pc[p] = "facilityTypeQuery"
  /\ IF req[p].facilityId \notin DOMAIN facilities
     THEN Throw(p, "typeError")
     ELSE IF facilities[req[p].facilityId].type \notin membership[p].facilities_access
          THEN Throw(p, "entitlement")
          ELSE /\ pc' = [pc EXCEPT ![p] = "dailyBookingsQuery"]
               /\ UNCHANGED err
  /\ UNCHANGED <<bookings, dbVars, req, facility, membership, inserted, locked, resp, slotsResp, httpResp>>

\* dailyBookingsQuery, then the daily-limit and advance-booking checks
DailyBookingsQuery(p) ==
  /\ pc[p] = "dailyBookingsQuery"
  /\ LET bookingDate == DateOf(req[p].startTime)
         dailyBookingsCount == DailyBookingsCount(req[p].userId, bookingDate)
         daysAhead == DiffDays(req[p].startTime) IN
       IF dailyBookingsCount >= membership[p].max_bookings_per_day
       THEN Throw(p, "dailyLimit")
       ELSE IF daysAhead > membership[p].max_booking_days_ahead
            THEN Throw(p, "advance")
            ELSE /\ pc' = [pc EXCEPT ![p] = "insertQuery"]
                 /\ UNCHANGED err
  /\ UNCHANGED <<bookings, dbVars, req, facility, membership, inserted, locked, resp, slotsResp, httpResp>>

\* the row of insertQuery: VALUES ($1, $2, $3, $4, $5, 'confirmed')
NewRow(r) ==
  [user_id |-> r.userId, facility_id |-> r.facilityId,
   start_time |-> r.startTime, end_time |-> r.endTime, status |-> "confirmed"]

\* variant: the INSERT goes through the pool, outside the transaction, and is
\* durable at once
InsertQuery_Autocommit(p) ==
  /\ pc[p] = "insertQuery"
  /\ bookings' = Append(bookings, NewRow(req[p]))
  /\ pc' = [pc EXCEPT ![p] = "commit"]
  /\ UNCHANGED <<dbVars, req, facility, membership, inserted, locked, err, resp, slotsResp, httpResp>>

\* INSERT INTO bookings ... RETURNING * (the row trigger runs before the insert)
InsertQuery(p) ==
  /\ pc[p] = "insertQuery"
  /\ IF TriggerRaises(NewRow(req[p]), 0)
     THEN Throw(p, "trigger") /\ UNCHANGED inserted
     ELSE /\ inserted' = [inserted EXCEPT ![p] = <<NewRow(req[p])>>]
          /\ pc' = [pc EXCEPT ![p] = "commit"]
          /\ UNCHANGED err
  /\ UNCHANGED <<bookings, dbVars, req, facility, membership, locked, resp, slotsResp, httpResp>>

\* withTransaction after the callback returned: COMMIT makes the writes durable
\* and releases the row locks
TxCommit(p) ==
  /\ bookings' = bookings \o inserted[p]
  /\ inserted' = [inserted EXCEPT ![p] = <<>>]
  /\ locked' = [locked EXCEPT ![p] = {}]

\* withTransaction after the callback threw: ROLLBACK discards the writes and
\* releases the row locks, then the error is rethrown
TxRollback(p) ==
  /\ UNCHANGED bookings
  /\ inserted' = [inserted EXCEPT ![p] = <<>>]
  /\ locked' = [locked EXCEPT ![p] = {}]

\* Booking.create returns the row; the controller answers 201
Commit(p) ==
  /\ pc[p] = "commit"
  /\ TxCommit(p)
  /\ resp' = [resp EXCEPT ![p] = [status |-> 201, error |-> "none", req |-> req[p]]]
  /\ pc' = [pc EXCEPT ![p] = "idle"]
  /\ req' = [req EXCEPT ![p] = None]
  /\ facility' = [facility EXCEPT ![p] = None]
  /\ membership' = [membership EXCEPT ![p] = None]
  /\ UNCHANGED <<dbVars, err, slotsResp, httpResp>>

\* variant: the connection goes back to the pool without ROLLBACK, so the row
\* locks of the transaction stay
Rollback_KeepsLocks(p) ==
  /\ pc[p] = "rollback"
  /\ UNCHANGED bookings
  /\ inserted' = [inserted EXCEPT ![p] = <<>>]
  /\ UNCHANGED locked
  /\ resp' = [resp EXCEPT ![p] = [status |-> 400, error |-> err[p], req |-> req[p]]]
  /\ pc' = [pc EXCEPT ![p] = "idle"]
  /\ req' = [req EXCEPT ![p] = None]
  /\ facility' = [facility EXCEPT ![p] = None]
  /\ membership' = [membership EXCEPT ![p] = None]
  /\ err' = [err EXCEPT ![p] = "none"]
  /\ UNCHANGED <<dbVars, slotsResp, httpResp>>

\* Booking.create rejects; the controller answers 400 with error.message
Rollback(p) ==
  /\ pc[p] = "rollback"
  /\ TxRollback(p)
  /\ resp' = [resp EXCEPT ![p] = [status |-> 400, error |-> err[p], req |-> req[p]]]
  /\ pc' = [pc EXCEPT ![p] = "idle"]
  /\ req' = [req EXCEPT ![p] = None]
  /\ facility' = [facility EXCEPT ![p] = None]
  /\ membership' = [membership EXCEPT ![p] = None]
  /\ err' = [err EXCEPT ![p] = "none"]
  /\ UNCHANGED <<dbVars, slotsResp, httpResp>>

(***************************************************************************)
(* cancelBooking, updateBookingStatus (one UPDATE each) and getBooking     *)
(***************************************************************************)
\* variant: the UPDATE without its WHERE clause
SetStatus_EveryRow(id, st) == [i \in DOMAIN bookings |-> [bookings[i] EXCEPT !.status = st]]

\* UPDATE bookings SET status = st WHERE id = $id
SetStatus(id, st) == [bookings EXCEPT ![id].status = st]

\* users.role of the caller the auth middleware attaches to the request
UserDirectory ==
  [u1 |-> "member", u2 |-> "member", u3 |-> "member", u4 |-> "member",
   s1 |-> "staff", a1 |-> "admin"]

Role(u) == UserDirectory[u]

\* Booking.findById: the row with that id, when there is one
FindById(id) == IF id \in BookingIds THEN {bookings[id]} ELSE {}

\* rows the UPDATE of Booking.cancel matches
CancelMatches(id, u) ==
  /\ id \in BookingIds
  /\ bookings[id].user_id = u
  /\ bookings[id].status \in {"confirmed", "pending"}

\* the catch block of a controller
InternalError == [status |-> 500, error |-> "Internal server error"]

\* variant: a booking of another user is answered 403, as getBooking does
Cancel_AccessDenied(id, u) ==
  /\ id \notin UNION {locked[q] : q \in Procs}
  /\ IF id \in BookingIds /\ bookings[id].user_id # u
     THEN httpResp' = [status |-> 403, error |-> "Access denied."] /\ UNCHANGED bookings
     ELSE IF ~CancelMatches(id, u)
          THEN /\ httpResp' = [status |-> 404,
                               error |-> "Booking not found or cannot be cancelled."]
               /\ UNCHANGED bookings
          ELSE IF TriggerRaises([bookings[id] EXCEPT !.status = "cancelled"], id)
               THEN httpResp' = InternalError /\ UNCHANGED bookings
               ELSE /\ bookings' = SetStatus(id, "cancelled")
                    /\ httpResp' = [status |-> 200, id |-> id, booking |-> bookings'[id]]
  /\ UNCHANGED <<dbVars, txVars, slotsResp>>

\* DELETE /api/bookings/:id by user u
Cancel(id, u) ==
  /\ id \notin UNION {locked[q] : q \in Procs}
  /\ IF ~CancelMatches(id, u)
     THEN /\ httpResp' = [status |-> 404,
                          error |-> "Booking not found or cannot be cancelled."]
          /\ UNCHANGED bookings
     ELSE IF TriggerRaises([bookings[id] EXCEPT !.status = "cancelled"], id)
          THEN httpResp' = InternalError /\ UNCHANGED bookings
          ELSE /\ bookings' = SetStatus(id, "cancelled")
               /\ httpResp' = [status |-> 200, id |-> id, booking |-> bookings'[id]]
  /\ UNCHANGED <<dbVars, txVars, slotsResp>>

\* statuses a request body may carry; updateBookingSchema accepts the first four
BodyStatuses == Statuses \cup {"pending"}

\* a body field that is absent
Undefined == "undefined"

\* PUT /api/bookings/:id/status by caller c; the body carries status st (or none)
\* and, when notes is TRUE, a notes string.  Booking.updateStatus commits its
\* UPDATE before the notes are handled, and Booking.updateNotes is not defined.
UpdateBookingStatus(c, id, st, notes) ==
  /\ id \notin UNION {locked[q] : q \in Procs}
  /\ IF Role(c) \notin {"admin", "staff"}
     THEN /\ httpResp' = [status |-> 403, error |-> "Insufficient permissions."]
          /\ UNCHANGED bookings
     ELSE IF st \notin Statuses \cup {Undefined}
          THEN httpResp' = [status |-> 400, error |-> "validation"] /\ UNCHANGED bookings
          ELSE IF FindById(id) = {}
               THEN /\ httpResp' = [status |-> 404, error |-> "Booking not found."]
                    /\ UNCHANGED bookings
               ELSE IF \/ TriggerRaises([bookings[id] EXCEPT !.status = st], id)
                       \/ st = Undefined
                    THEN httpResp' = InternalError /\ UNCHANGED bookings
                    ELSE /\ bookings' = SetStatus(id, st)
                         /\ httpResp' = IF notes THEN InternalError
                                        ELSE [status |-> 200, id |-> id,
                                              booking |-> bookings'[id]]
  /\ UNCHANGED <<dbVars, txVars, slotsResp>>

\* PUT /api/bookings/:id/status by caller c, body {status: st}
UpdateStatus(c, id, st) == UpdateBookingStatus(c, id, st, FALSE)

\* variant: the lookup without the ownership test
GetBooking_AnyOwner(c, id) ==
  /\ httpResp' =
       IF FindById(id) = {}
       THEN [status |-> 404, error |-> "Booking not found."]
       ELSE [status |-> 200, id |-> id, booking |-> bookings[id]]
  /\ UNCHANGED <<bookings, dbVars, txVars, slotsResp>>

\* GET /api/bookings/:id by caller c
GetBooking(c, id) ==
  /\ httpResp' =
       IF Role(c) \in {"admin", "staff"}
       THEN IF FindById(id) = {}
            THEN [status |-> 404, error |-> "Booking not found."]
            ELSE [status |-> 200, id |-> id, booking |-> bookings[id]]
       ELSE IF FindById(id) # {} /\ bookings[id].user_id # c
            THEN [status |-> 403, error |-> "Access denied."]
            ELSE IF FindById(id) = {}
                 THEN [status |-> 404, error |-> "Booking not found."]
                 ELSE [status |-> 200, id |-> id, booking |-> bookings[id]]
  /\ UNCHANGED <<bookings, dbVars, txVars, slotsResp>>

(***************************************************************************)
(* FacilityController.updateFacilityStatus (one UPDATE)                    *)
(***************************************************************************)
FacilityStatuses == {"available", "maintenance", "closed"}

\* PUT /api/facilities/:id/status by staff, body {status: st}
UpdateFacilityStatus(f, st) ==
  /\ IF st \notin FacilityStatuses
     THEN /\ httpResp' = [status |-> 400, error |-> "Invalid status value."]
          /\ UNCHANGED facilities
     ELSE IF f \notin DOMAIN facilities
          THEN /\ httpResp' = [status |-> 404, error |-> "Facility not found."]
               /\ UNCHANGED facilities
          ELSE /\ facilities' = [facilities EXCEPT ![f].status = st]
               /\ httpResp' = [status |-> 200, facility |-> facilities'[f]]
  /\ UNCHANGED <<bookings, memberships, overlapTrigger, now, txVars, slotsResp>>

(***************************************************************************)
(* Facility.getAvailableSlots                                              *)
(***************************************************************************)
\* JavaScript property read: a missing property is undefined
Prop(obj, name) ==
  IF name \in DOMAIN obj THEN [defined |-> TRUE, v |-> obj[name]]
  ELSE [defined |-> FALSE, v |-> 0]

\* JavaScript a < b on a Date and a property value: false when the value is undefined
JsLess(a, b) == a.defined /\ b.defined /\ a.v < b.v

Defined(x) == [defined |-> TRUE, v |-> x]

\* rows of the LEFT JOIN that carry a booking, mapped to {startTime, endTime}
SlotBookings(f, date) ==
  {[startTime |-> bookings[i].start_time, endTime |-> bookings[i].end_time] :
     i \in {j \in BookingIds :
              /\ bookings[j].facility_id = f
              /\ DateOf(bookings[j].start_time) = date
              /\ bookings[j].status \in {"confirmed", "pending"}}}

\* bookings.some(booking => slotStart < booking.end_time && slotEnd > booking.start_time)
IsConflicting(slotStart, slotEnd, bks) ==
  \E booking \in bks :
    /\ JsLess(Defined(slotStart), Prop(booking, "end_time"))
    /\ JsLess(Prop(booking, "start_time"), Defined(slotEnd))

\* the while loop from currentTime on; it is followed for at most fuel iterations
RECURSIVE SlotLoop(_, _, _, _, _, _)
SlotLoop(currentTime, dayEnd, slotDuration, bufferTime, bks, fuel) ==
  IF ~(currentTime + slotDuration <= dayEnd) THEN [slots |-> <<>>, returned |-> TRUE]
  ELSE IF fuel = 0 THEN [slots |-> <<>>, returned |-> FALSE]
  ELSE LET slotStart == currentTime
           slotEnd == currentTime + slotDuration
           rest == SlotLoop(slotEnd + bufferTime, dayEnd, slotDuration, bufferTime,
                            bks, fuel - 1) IN
       [slots |-> <<[startTime |-> slotStart, endTime |-> slotEnd,
                     available |-> ~IsConflicting(slotStart, slotEnd, bks)]>> \o rest.slots,
        returned |-> rest.returned]

\* variant: a slot is emitted while it starts at or before dayEnd
AvailableSlots_StartsByDayEnd(f, date) ==
  LET fac == facilities[f]
      dayStart == SetHours(date, fac.operating_hours_start)
      dayEnd == SetHours(date, fac.operating_hours_end) IN
  SlotLoop(dayStart, dayEnd + fac.booking_duration_minutes, fac.booking_duration_minutes,
           fac.booking_buffer_minutes, SlotBookings(f, date), MaxSlotIter)

\* variant: the cursor moves to the end of the slot, without the buffer
AvailableSlots_NoBuffer(f, date) ==
  LET fac == facilities[f]
      dayStart == SetHours(date, fac.operating_hours_start)
      dayEnd == SetHours(date, fac.operating_hours_end) IN
  SlotLoop(dayStart, dayEnd, fac.booking_duration_minutes, 0,
           SlotBookings(f, date), MaxSlotIter)

\* the value Facility.getAvailableSlots(facilityId, date) computes
AvailableSlots(f, date) ==
  LET fac == facilities[f]
      dayStart == SetHours(date, fac.operating_hours_start)
      dayEnd == SetHours(date, fac.operating_hours_end) IN
  SlotLoop(dayStart, dayEnd, fac.booking_duration_minutes, fac.booking_buffer_minutes,
           SlotBookings(f, date), MaxSlotIter)

\* GET /api/facilities/:id/available-slots?date=
GetAvailableSlots(f, date) ==
  /\ slotsResp' =
       IF f \notin DOMAIN facilities
       THEN [status |-> 404, facilityId |-> f, date |-> date]
       ELSE LET r == AvailableSlots(f, date) IN
            IF r.returned
            THEN [status |-> 200, facilityId |-> f, date |-> date, availableSlots |-> r.slots]
            ELSE [status |-> 0, facilityId |-> f, date |-> date]
  /\ UNCHANGED <<bookings, dbVars, txVars, httpResp>>

(***************************************************************************)
(* Specifications                                                          *)
(***************************************************************************)
Today == DateOf(now)
At(day, h, m) == day * MinutesPerDay + h * 60 + m

InitTx ==
  /\ pc = [p \in Procs |-> "idle"]
  /\ req = [p \in Procs |-> None]
  /\ facility = [p \in Procs |-> None]
  /\ membership = [p \in Procs |-> None]
  /\ inserted = [p \in Procs |-> <<>>]
  /\ locked = [p \in Procs |-> {}]
  /\ err = [p \in Procs |-> "none"]
  /\ resp = [p \in Procs |-> None]

\* an empty bookings table, the stored catalog, 07:30 on day 0
Init ==
  /\ bookings = <<>>
  /\ facilities = FacilityCatalog
  /\ memberships = MembershipDirectory
  /\ overlapTrigger \in BOOLEAN
  /\ now = At(0, 7, 30)
  /\ InitTx
  /\ slotsResp = None
  /\ httpResp = None

TxStep(p) ==
  \/ AvailabilityQuery(p)
  \/ FacilityQuery(p)
  \/ MembershipQuery(p)
  \/ FacilityTypeQuery(p)
  \/ DailyBookingsQuery(p)
  \/ InsertQuery(p)
  \/ Commit(p)
  \/ Rollback(p)

\* ---- Spec: two concurrent handlers, cancel, status update, slots, on facility f1
ConcUsers == {"u1", "u2"}
ConcStarts == {At(Today, 8, 0), At(Today, 9, 0)}

Next ==
  \/ \E p \in Procs, u \in ConcUsers, s \in ConcStarts :
       CreateBooking(p, u, "f1", s, s + 60)
  \/ \E p \in Procs : TxStep(p)
  \/ \E id \in 1..MaxBookings, u \in ConcUsers : Cancel(id, u)
  \/ \E id \in 1..MaxBookings, st \in Statuses : UpdateStatus("s1", id, st)
  \/ GetAvailableSlots("f1", Today)

Spec == Init /\ [][Next]_vars

\* ---- SpecCreate: concurrent createBooking calls only
NextCreate ==
  \/ \E p \in Procs, u \in ConcUsers, s \in {At(Today, 8, 0), At(Today, 8, 30), At(Today, 9, 0)} :
       CreateBooking(p, u, "f1", s, s + 60)
  \/ \E p \in Procs : TxStep(p)

SpecCreate == Init /\ [][NextCreate]_vars

\* ---- SpecFire: every handler serves one createBooking request, fired from the empty table
NextFire ==
  \/ \E p \in Procs, u \in {"u1", "u2", "u3"}, s \in ConcStarts, d \in {30, 60} :
       /\ resp[p] = None
       /\ CreateBooking(p, u, "f1", s, s + d)
  \/ \E p \in Procs : TxStep(p)

SpecFire == Init /\ [][NextFire]_vars

\* ---- SpecAdm: one handler over the whole request domain, with owner cancels
Request(u, f, s, d) == [userId |-> u, facilityId |-> f, startTime |-> s, endTime |-> s + d]

AdmRequests ==
  {Request(u, f, s, d) : u \in {"u1", "u2", "u3", "u4"}, f \in {"f1", "f2"},
                         s \in {At(Today, 8, 0), At(Today, 9, 0)}, d \in {30, 60}}
  \cup {Request("u1", "f1", s, 60) : s \in {At(Today, 7, 0), At(Today, 7, 45),
                                            At(Today, 10, 0), At(Today, 10, 30)}}
  \cup {Request("u1", f, At(Today, 8, 0), 60) : f \in {"f3", "f9"}}
  \cup {Request(u, "f1", s, 60) : u \in {"u1", "u2"},
                                  s \in {At(Today + 1, 9, 0), At(Today + 2, 8, 0)}}
  \cup {Request("u1", "f1", At(Today, 9, 0), -30)}

NextAdm ==
  \/ \E r \in AdmRequests :
       CreateBooking("p1", r.userId, r.facilityId, r.startTime, r.endTime)
  \/ TxStep("p1")
  \/ \E id \in 1..MaxBookings, u \in {"u1", "u2"} : Cancel(id, u)

SpecAdm == Init /\ [][NextAdm]_vars

\* ---- SpecOps: one createBooking handler with owner cancels and lookups
\* ids a cancel, status update or lookup may name: every row and one id past them
RequestIds == 1..(MaxBookings + 1)

NextOps ==
  \/ \E u \in ConcUsers, s \in ConcStarts : CreateBooking("p1", u, "f1", s, s + 60)
  \/ TxStep("p1")
  \/ \E id \in RequestIds, u \in ConcUsers : Cancel(id, u)
  \/ \E c \in {"u1", "u2", "s1", "a1"}, id \in RequestIds : GetBooking(c, id)

SpecOps == Init /\ [][NextOps]_vars

\* ---- SpecStaff: one createBooking handler with status updates
NextStaff ==
  \/ \E u \in ConcUsers, s \in ConcStarts : CreateBooking("p1", u, "f1", s, s + 60)
  \/ TxStep("p1")
  \/ \E c \in {"u1", "s1", "a1"}, id \in RequestIds, st \in BodyStatuses :
       UpdateStatus(c, id, st)

SpecStaff == Init /\ [][NextStaff]_vars

\* ---- SpecTwo: one createBooking call per handler on two facilities, from an empty
\* table or from one committed booking
TwoFacilities == {"f1", "f2"}

InitTwo ==
  /\ bookings \in {<<>>} \cup
       {<<[user_id |-> "u4", facility_id |-> f, start_time |-> At(0, 8, 0),
           end_time |-> At(0, 8, 0) + FacilityCatalog[f].booking_duration_minutes,
           status |-> "confirmed"]>> : f \in TwoFacilities}
  /\ facilities = FacilityCatalog
  /\ memberships = MembershipDirectory
  /\ overlapTrigger \in BOOLEAN
  /\ now = At(0, 7, 30)
  /\ InitTx
  /\ slotsResp = None
  /\ httpResp = None

NextTwo ==
  \/ \E p \in Procs, u \in ConcUsers, f \in TwoFacilities :
       /\ resp[p] = None
       /\ CreateBooking(p, u, f, At(Today, 8, 0),
                        At(Today, 8, 0) + facilities[f].booking_duration_minutes)
  \/ \E p \in Procs : TxStep(p)

SpecTwo == InitTwo /\ [][NextTwo]_vars

\* ---- SpecSlots: the slot generator over stored facility configurations
SlotConfigs ==
  {[type |-> "tennis_court", status |-> "available",
    operating_hours_start |-> hs, operating_hours_end |-> he,
    booking_duration_minutes |-> d, booking_buffer_minutes |-> b] :
      hs \in {<<8, 0, 0>>, <<8, 30, 0>>, <<10, 0, 0>>},
      he \in {<<9, 0, 0>>, <<10, 0, 0>>, <<10, 30, 0>>},
      d \in {30, 45, 60}, b \in {0, 15}}

InitSlots ==
  /\ bookings = <<>>
  /\ \E c \in SlotConfigs : facilities = [f1 |-> c]
  /\ memberships = MembershipDirectory
  /\ overlapTrigger \in BOOLEAN
  /\ now = At(0, 7, 30)
  /\ InitTx
  /\ slotsResp = None
  /\ httpResp = None

NextSlots ==
  \/ \E s \in {At(Today, 8, 30), At(Today, 9, 0)} :
       CreateBooking("p1", "u1", "f1", s, s + facilities["f1"].booking_duration_minutes)
  \/ TxStep("p1")
  \/ \E f \in {"f1", "f9"}, date \in {Today, Today + 1} : GetAvailableSlots(f, date)

SpecSlots == InitSlots /\ [][NextSlots]_vars

\* ---- SpecSlotsAny: the slot generator over every configuration the facilities
\* table can hold (booking_duration_minutes is an INTEGER column without a CHECK)
ColumnConfigs ==
  {[type |-> "tennis_court", status |-> "available",
    operating_hours_start |-> hs, operating_hours_end |-> he,
    booking_duration_minutes |-> d, booking_buffer_minutes |-> b] :
      hs \in {<<8, 0, 0>>, <<10, 0, 0>>},
      he \in {<<9, 0, 0>>, <<9, 15, 0>>},
      d \in {0, 30, 60}, b \in {0, 15}}

InitSlotsAny ==
  /\ bookings = <<>>
  /\ \E c \in ColumnConfigs : facilities = [f1 |-> c]
  /\ memberships = MembershipDirectory
  /\ overlapTrigger \in BOOLEAN
  /\ now = At(0, 7, 30)
  /\ InitTx
  /\ slotsResp = None
  /\ httpResp = None

NextSlotsAny ==
  \E f \in {"f1", "f9"}, date \in {Today, Today + 1, Today + 2} : GetAvailableSlots(f, date)

SpecSlotsAny == InitSlotsAny /\ [][NextSlotsAny]_vars

\* ---- SpecConflict: the conflict predicate over every pair of intervals of a
\* half-hour grid: one committed booking [s, e) and one request [S, E)
Grid == {At(0, 8, 0), At(0, 8, 30), At(0, 9, 0), At(0, 9, 30), At(0, 10, 0)}

InitConflict ==
  /\ \E s, e \in Grid :
       /\ s < e
       /\ bookings = <<[user_id |-> "u4", facility_id |-> "f1", start_time |-> s,
                        end_time |-> e, status |-> "confirmed"]>>
  /\ facilities = FacilityCatalog
  /\ memberships = MembershipDirectory
  /\ overlapTrigger \in BOOLEAN
  /\ now = At(0, 7, 30)
  /\ InitTx
  /\ slotsResp = None
  /\ httpResp = None

NextConflict ==
  \/ \E S, E \in Grid : S < E /\ CreateBooking("p1", "u1", "f1", S, E)
  \/ TxStep("p1")

SpecConflict == InitConflict /\ [][NextConflict]_vars

\* ---- SpecOrder: one handler over requests that fail several checks at once,
\* from a table that holds one booking of u2 on f1, 08:00-09:00 today
OrderRequests ==
  {Request(u, f, s, d) : u \in {"u1", "u2", "u3"}, f \in {"f1", "f2", "f3", "f9"},
                         s \in {At(Today, 7, 45), At(Today, 8, 0), At(Today, 9, 0),
                                At(Today + 2, 8, 0)},
                         d \in {-30, 30, 60}}

InitOrder ==
  /\ bookings = <<[user_id |-> "u2", facility_id |-> "f1", start_time |-> At(0, 8, 0),
                   end_time |-> At(0, 9, 0), status |-> "confirmed"]>>
  /\ facilities = FacilityCatalog
  /\ memberships = MembershipDirectory
  /\ overlapTrigger \in BOOLEAN
  /\ now = At(0, 7, 30)
  /\ InitTx
  /\ slotsResp = None
  /\ httpResp = None

NextOrder ==
  \/ \E r \in OrderRequests :
       CreateBooking("p1", r.userId, r.facilityId, r.startTime, r.endTime)
  \/ TxStep("p1")

SpecOrder == InitOrder /\ [][NextOrder]_vars

\* ---- SpecFacility: one createBooking handler while staff change facility status
NextFacility ==
  \/ \E f \in {"f1", "f3", "f9"}, s \in ConcStarts : CreateBooking("p1", "u1", f, s, s + 60)
  \/ TxStep("p1")
  \/ \E f \in {"f1", "f3", "f9"}, st \in FacilityStatuses \cup {"retired"} :
       UpdateFacilityStatus(f, st)

SpecFacility == Init /\ [][NextFacility]_vars

\* ---- SpecMulti: one handler for user u1, who holds two memberships
MembershipOptions ==
  {[user_id |-> "u1", status |-> st, end_date |-> ed,
    facilities_access |-> t.access, max_bookings_per_day |-> t.perDay,
    max_booking_days_ahead |-> t.ahead] :
      st \in {"active", "expired"}, ed \in {-1, 30},
      t \in {[access |-> {"tennis_court", "swimming_pool", "gym"}, perDay |-> 2, ahead |-> 1],
             [access |-> {"swimming_pool"}, perDay |-> 1, ahead |-> 0]}}

InitMulti ==
  /\ bookings = <<>>
  /\ facilities = FacilityCatalog
  /\ \E older, newer \in MembershipOptions : memberships = <<older, newer>>
  /\ overlapTrigger \in BOOLEAN
  /\ now = At(0, 7, 30)
  /\ InitTx
  /\ slotsResp = None
  /\ httpResp = None

NextMulti ==
  \/ \E f \in TwoFacilities, s \in {At(Today, 8, 0), At(Today, 9, 0), At(Today + 1, 9, 0)} :
       CreateBooking("p1", "u1", f, s, s + facilities[f].booking_duration_minutes)
  \/ TxStep("p1")

SpecMulti == InitMulti /\ [][NextMulti]_vars

\* ---- SpecMutate: one createBooking handler with owner cancels and staff status updates
NextMutate ==
  \/ \E u \in ConcUsers, s \in ConcStarts : CreateBooking("p1", u, "f1", s, s + 60)
  \/ TxStep("p1")
  \/ \E id \in RequestIds, u \in ConcUsers : Cancel(id, u)
  \/ \E id \in RequestIds, st \in Statuses : UpdateStatus("s1", id, st)

SpecMutate == Init /\ [][NextMutate]_vars

\* ---- SpecNotes: one createBooking handler with status updates of every body
NextNotes ==
  \/ \E u \in ConcUsers, s \in ConcStarts : CreateBooking("p1", u, "f1", s, s + 60)
  \/ TxStep("p1")
  \/ \E c \in {"u1", "s1", "a1"}, id \in RequestIds, st \in BodyStatuses \cup {Undefined},
        notes \in BOOLEAN :
       UpdateBookingStatus(c, id, st, notes)

SpecNotes == Init /\ [][NextNotes]_vars

\* ---- SpecLive: two handlers and owner cancels on facility f1 under fair
\* scheduling, from one committed booking with up to two requests just received
LiveRequests == {Request(u, "f1", s, 60) : u \in ConcUsers, s \in ConcStarts}

InitLive ==
  /\ bookings = <<[user_id |-> "u1", facility_id |-> "f1", start_time |-> At(0, 8, 0),
                   end_time |-> At(0, 9, 0), status |-> "confirmed"]>>
  /\ facilities = FacilityCatalog
  /\ memberships = MembershipDirectory
  /\ overlapTrigger \in BOOLEAN
  /\ now = At(0, 7, 30)
  /\ req \in [Procs -> LiveRequests \cup {None}]
  /\ pc = [p \in Procs |-> IF req[p] = None THEN "idle" ELSE "availabilityQuery"]
  /\ facility = [p \in Procs |-> None]
  /\ membership = [p \in Procs |-> None]
  /\ inserted = [p \in Procs |-> <<>>]
  /\ locked = [p \in Procs |-> {}]
  /\ err = [p \in Procs |-> "none"]
  /\ resp = [p \in Procs |-> None]
  /\ slotsResp = None
  /\ httpResp = None

NextLive ==
  \/ \E p \in Procs, r \in LiveRequests :
       CreateBooking(p, r.userId, r.facilityId, r.startTime, r.endTime)
  \/ \E p \in Procs : TxStep(p)
  \/ \E id \in 1..MaxBookings, u \in ConcUsers : Cancel(id, u)

\* every awaited query of a transaction is answered; a transaction that waits
\* for a row lock is granted it once the lock is free (the lock manager queues
\* waiters)
FairLive ==
  \A p \in Procs : WF_vars(TxStep(p)) /\ SF_vars(AvailabilityQuery(p))

SpecLive == InitLive /\ [][NextLive]_vars /\ FairLive

(***************************************************************************)
(* Properties                                                              *)
(***************************************************************************)
\* half-open interval overlap of two booking rows
Overlap(a, b) == a.start_time < b.end_time /\ b.start_time < a.end_time

Holding == {"confirmed", "completed"}

SameWindow(r1, r2) ==
  /\ r1.facilityId = r2.facilityId
  /\ r1.startTime = r2.startTime
  /\ r1.endTime = r2.endTime

\* the checks of a request that do not depend on the bookings table
PassesStaticChecks(r) ==
  /\ r.startTime >= now /\ r.endTime >= r.startTime
  /\ r.facilityId \in DOMAIN facilities
  /\ facilities[r.facilityId].status = "available"
  /\ r.endTime - r.startTime = facilities[r.facilityId].booking_duration_minutes
  /\ ~StrLess(FormatHHmmss(r.startTime), facilities[r.facilityId].operating_hours_start)
  /\ ~StrLess(facilities[r.facilityId].operating_hours_end, FormatHHmmss(r.startTime))
  /\ \E i \in 1..Len(memberships) :
       /\ memberships[i].user_id = r.userId
       /\ memberships[i].status = "active" /\ memberships[i].end_date >= Today
       /\ \A j \in 1..Len(memberships) :
            (memberships[j].user_id = r.userId /\ memberships[j].status = "active"
               /\ memberships[j].end_date >= Today) => j <= i
       /\ facilities[r.facilityId].type \in memberships[i].facilities_access
       /\ DateOf(r.startTime) - Today <= memberships[i].max_booking_days_ahead

\* the daily allowance of the user of r admits n more bookings on an empty day
DailyAllowance(r, n) ==
  \A i \in 1..Len(memberships) :
    (memberships[i].user_id = r.userId /\ memberships[i].status = "active")
      => memberships[i].max_bookings_per_day >= n

\* C1 (SpecCreate): after any interleaving of concurrent createBooking calls no
\* facility has two bookings with status confirmed or completed whose
\* [start_time, end_time) intervals overlap.
C1_NoDoubleBooking ==
  \A i, j \in BookingIds :
    (/\ i < j
     /\ bookings[i].facility_id = bookings[j].facility_id
     /\ bookings[i].status \in Holding
     /\ bookings[j].status \in Holding)
    => ~Overlap(bookings[i], bookings[j])

\* C2 (SpecFire): of two otherwise-admissible requests for the same facility and
\* the same window fired at a table with no booking in that window, exactly one is
\* answered 201 and the other is answered with the conflict error.
C2_ExactlyOneSucceeds ==
  \A p, q \in Procs :
    (/\ p # q
     /\ resp[p] # None /\ resp[q] # None
     /\ SameWindow(resp[p].req, resp[q].req)
     /\ PassesStaticChecks(resp[p].req) /\ PassesStaticChecks(resp[q].req)
     /\ DailyAllowance(resp[p].req, IF resp[p].req.userId = resp[q].req.userId THEN 2 ELSE 1)
     /\ DailyAllowance(resp[q].req, IF resp[p].req.userId = resp[q].req.userId THEN 2 ELSE 1))
    => \/ resp[p].status = 201 /\ resp[q].status = 400 /\ resp[q].error = "conflict"
       \/ resp[q].status = 201 /\ resp[p].status = 400 /\ resp[p].error = "conflict"

\* C3 (Spec): in every state reachable by createBooking, owner cancel and staff
\* status updates, the confirmed or completed bookings of one facility are
\* pairwise disjoint in time.
C3_HoldingBookingsDisjoint ==
  \A f \in DOMAIN facilities :
    LET held == {i \in BookingIds : bookings[i].facility_id = f /\ bookings[i].status \in Holding} IN
    \A i \in held : \A j \in held \ {i} :
      \/ bookings[i].end_time <= bookings[j].start_time
      \/ bookings[j].end_time <= bookings[i].start_time

\* the call of handler p ends in this step with HTTP status code
Answers(p, code) == resp'[p] # resp[p] /\ resp'[p] # None /\ resp'[p].status = code

\* handler p takes a step of its createBooking call
Moves(p) == pc'[p] # pc[p] \/ resp'[p] # resp[p]

\* C4 (SpecAdm): a createBooking call changes the bookings rows by exactly one
\* appended row, that of the request, in the step that answers 201, and by
\* nothing in every other step, whichever check makes it fail.
C4_OneRowOrNothing ==
  [][\A p \in Procs :
       Moves(p) =>
         IF Answers(p, 201)
         THEN bookings' = Append(bookings, NewRow(resp'[p].req))
         ELSE bookings' = bookings]_vars

\* every failure kind has been answered, after a booking was committed
C4_Witness ==
  /\ Len(bookings) = 1
  /\ resp["p1"] # None
  /\ resp["p1"].status = 400
  /\ resp["p1"].error = "dailyLimit"

\* request r asks for a duration other than the facility's booking_duration_minutes
WrongDuration(r) ==
  /\ r.facilityId \in DOMAIN facilities
  /\ r.endTime - r.startTime # facilities[r.facilityId].booking_duration_minutes

Considered(u) ==
  {i \in 1..Len(memberships) :
     /\ memberships[i].user_id = u
     /\ memberships[i].status = "active" /\ memberships[i].end_date >= Today
     /\ \A j \in 1..Len(memberships) :
          (/\ memberships[j].user_id = u
           /\ memberships[j].status = "active" /\ memberships[j].end_date >= Today)
          => j <= i}

\* request r is made without entitlement to the facility
Unentitled(r) ==
  \/ Considered(r.userId) = {}
  \/ /\ r.facilityId \in DOMAIN facilities
     /\ \A i \in Considered(r.userId) :
          facilities[r.facilityId].type \notin memberships[i].facilities_access

\* request r passes validation and the facility, duration and hours checks
PassesFacilityChecks(r) ==
  /\ r.startTime >= now /\ r.endTime >= r.startTime
  /\ r.facilityId \in DOMAIN facilities
  /\ facilities[r.facilityId].status = "available"
  /\ r.endTime - r.startTime = facilities[r.facilityId].booking_duration_minutes
  /\ ~StrLess(FormatHHmmss(r.startTime), facilities[r.facilityId].operating_hours_start)
  /\ ~StrLess(facilities[r.facilityId].operating_hours_end, FormatHHmmss(r.startTime))

\* the requested interval of r is free of confirmed and pending bookings
SlotFree(r) ==
  \A i \in BookingIds :
    (bookings[i].facility_id = r.facilityId /\ bookings[i].status \in {"confirmed", "pending"})
    => ~(bookings[i].start_time < r.endTime /\ r.startTime < bookings[i].end_time)

\* C6 (SpecAdm): a request by a user without a considered membership, or whose
\* considered membership does not grant the facility's type, never commits a
\* booking; when the slot is free at the conflict check and the facility,
\* duration and hours checks pass it is answered with the membership-required
\* error (no membership) or the entitlement-denied error (type not granted).
C6_EntitlementGate ==
  /\ [](\A p \in Procs :
          /\ (pc[p] \in {"dailyBookingsQuery", "insertQuery", "commit"})
               => ~Unentitled(req[p])
          /\ (resp[p] # None /\ Unentitled(resp[p].req))
               => /\ resp[p].status = 400
                  /\ (PassesFacilityChecks(resp[p].req) /\ resp[p].error # "conflict")
                       => resp[p].error = IF Considered(resp[p].req.userId) = {}
                                          THEN "membership" ELSE "entitlement")
  /\ [](\A i \in BookingIds :
          ~Unentitled([userId |-> bookings[i].user_id,
                       facilityId |-> bookings[i].facility_id]))
  /\ [][\A p \in Procs :
          (/\ pc[p] = "availabilityQuery" /\ pc'[p] # "availabilityQuery"
           /\ SlotFree(req[p]))
          => pc'[p] = "facilityQuery"]_vars

\* a request for a facility type the membership does not grant was answered with
\* the entitlement error while the slot was free
C6_Witness ==
  /\ resp["p1"] # None
  /\ resp["p1"].error = "entitlement"
  /\ PassesFacilityChecks(resp["p1"].req)
  /\ SlotFree(resp["p1"].req)

\* the limits of the membership considered for user u
MaxDaysAhead(u) == memberships[CHOOSE i \in Considered(u) : TRUE].max_booking_days_ahead

MaxPerDay(u) == memberships[CHOOSE i \in Considered(u) : TRUE].max_bookings_per_day

\* the number of confirmed and pending bookings of user u that start on the day of t
OwnCount(u, t) ==
  Cardinality({i \in BookingIds :
     /\ bookings[i].user_id = u
     /\ bookings[i].status \in {"confirmed", "pending"}
     /\ bookings[i].start_time \div MinutesPerDay = t \div MinutesPerDay})

\* calendar days from today to the day of t
DaysFromToday(t) == (t \div MinutesPerDay) - Today

\* C7 (SpecAdm): with every other check passing, a request whose start falls on
\* the day exactly max_booking_days_ahead after today is admitted and answered
\* 201, and one whose start falls on the day after that is answered with the
\* advance-booking error.
C7_AdvanceWindowBoundary ==
  /\ [](\A p \in Procs :
          (/\ resp[p] # None
           /\ PassesFacilityChecks(resp[p].req) /\ ~Unentitled(resp[p].req)
           /\ resp[p].error \notin {"conflict", "dailyLimit", "trigger"})
          => /\ (DaysFromToday(resp[p].req.startTime) = MaxDaysAhead(resp[p].req.userId))
                  => resp[p].status = 201
             /\ (DaysFromToday(resp[p].req.startTime) = MaxDaysAhead(resp[p].req.userId) + 1)
                  => resp[p].status = 400 /\ resp[p].error = "advance")
  /\ [][\A p \in Procs :
          (/\ pc[p] = "dailyBookingsQuery" /\ pc'[p] # "dailyBookingsQuery"
           /\ OwnCount(req[p].userId, req[p].startTime) < MaxPerDay(req[p].userId))
          => /\ (DaysFromToday(req[p].startTime) = MaxDaysAhead(req[p].userId))
                  => pc'[p] = "insertQuery"
             /\ (DaysFromToday(req[p].startTime) = MaxDaysAhead(req[p].userId) + 1)
                  => pc'[p] = "rollback" /\ err'[p] = "advance"]_vars

\* a booking on the last day of the window is held and a request for the day after
\* it was answered with the advance-booking error
C7_Witness ==
  /\ resp["p1"] # None
  /\ resp["p1"].error = "advance"
  /\ DaysFromToday(resp["p1"].req.startTime) = MaxDaysAhead(resp["p1"].req.userId) + 1
  /\ \E i \in BookingIds :
       /\ bookings[i].user_id = resp["p1"].req.userId
       /\ bookings[i].status = "confirmed"
       /\ DaysFromToday(bookings[i].start_time) = MaxDaysAhead(bookings[i].user_id)

\* handler p answers its createBooking call in this step
Answered(p) == resp'[p] # resp[p] /\ resp'[p] # None

Occupied(f, date, s, e) ==
  \E i \in BookingIds :
    /\ bookings[i].facility_id = f
    /\ bookings[i].status \in {"confirmed", "pending"}
    /\ bookings[i].start_time \div MinutesPerDay = date
    /\ bookings[i].start_time < e /\ s < bookings[i].end_time

\* C9 as claimed (Spec): getAvailableSlots marks a slot unavailable exactly when
\* it overlaps a confirmed or pending booking of the facility on that date, and
\* available otherwise.
C9_SlotsReflectBookings ==
  [][\A f \in {"f1"}, date \in {Today} :
       (GetAvailableSlots(f, date) /\ slotsResp'.status = 200)
       => \A k \in 1..Len(slotsResp'.availableSlots) :
            slotsResp'.availableSlots[k].available
              <=> ~Occupied(f, date, slotsResp'.availableSlots[k].startTime,
                            slotsResp'.availableSlots[k].endTime)]_vars

\* minutes since 00:00 of day 0 of the time of day <<h, m, s>> on day date
DayTime(date, hms) == date * MinutesPerDay + hms[1] * 60 + hms[2]

\* the slots of the closed form: one for every k >= 0 whose end is <= dayEnd
SlotIndexes(dayStart, dayEnd, duration, buffer) ==
  {k \in 0..MaxSlotIter : dayStart + k * (duration + buffer) + duration <= dayEnd}

\* C10 (SpecSlots): for a facility with duration > 0 getAvailableSlots returns, in
\* ascending order, exactly the slots [dayStart + k*(duration+buffer),
\* dayStart + k*(duration+buffer) + duration) for every k >= 0 whose end is
\* <= dayEnd; with hours 08:00-10:00, duration 60, buffer 0 and no bookings these
\* are [08:00,09:00) and [09:00,10:00), both available.
C10_SlotPartition ==
  (slotsResp # None /\ slotsResp.status = 200)
  => LET fac == facilities[slotsResp.facilityId]
         duration == fac.booking_duration_minutes
         buffer == fac.booking_buffer_minutes
         dayStart == DayTime(slotsResp.date, fac.operating_hours_start)
         dayEnd == DayTime(slotsResp.date, fac.operating_hours_end)
         ks == SlotIndexes(dayStart, dayEnd, duration, buffer)
         slots == slotsResp.availableSlots IN
     /\ duration > 0
     /\ Len(slots) = Cardinality(ks)
     /\ \A k \in ks :
          /\ slots[k + 1].startTime = dayStart + k * (duration + buffer)
          /\ slots[k + 1].endTime = dayStart + k * (duration + buffer) + duration
     /\ \A i, j \in 1..Len(slots) : i < j => slots[i].startTime < slots[j].startTime
     /\ (/\ fac.operating_hours_start = <<8, 0, 0>> /\ fac.operating_hours_end = <<10, 0, 0>>
         /\ duration = 60 /\ buffer = 0 /\ bookings = <<>>)
        => slots = <<[startTime |-> At(slotsResp.date, 8, 0),
                      endTime |-> At(slotsResp.date, 9, 0), available |-> TRUE],
                     [startTime |-> At(slotsResp.date, 9, 0),
                      endTime |-> At(slotsResp.date, 10, 0), available |-> TRUE]>>

\* the slots of a facility with a buffer were returned, more than one of them
C10_Witness ==
  /\ slotsResp # None /\ slotsResp.status = 200
  /\ facilities[slotsResp.facilityId].booking_buffer_minutes > 0
  /\ Len(slotsResp.availableSlots) >= 2

\* booking id exists, is owned by u and is confirmed or pending
Cancellable(id, u) ==
  /\ id \in 1..Len(bookings)
  /\ bookings[id].user_id = u
  /\ bookings[id].status \in {"confirmed", "pending"}

\* C11 as claimed (Spec): a cancel by u of a booking that exists, is owned by u
\* and is confirmed or pending succeeds and makes exactly that row cancelled, so
\* that every later cancel of it fails; any other cancel answers the
\* not-found-or-not-cancellable outcome and changes nothing.
C11_CancelExactlyOnce ==
  [][\A id \in RequestIds, u \in ConcUsers :
       Cancel(id, u)
       => IF Cancellable(id, u)
          THEN /\ httpResp'.status = 200
               /\ bookings' = [bookings EXCEPT ![id].status = "cancelled"]
               /\ ~Cancellable(id, u)'
          ELSE /\ httpResp'.status = 404
               /\ bookings' = bookings]_vars

\* what user u can see of the bookings table: its own rows, by id
OwnView(u) ==
  [i \in {j \in 1..Len(bookings) : bookings[j].user_id = u} |-> bookings[i]]

\* the outcome of a cancel of id by a caller whose own rows are view, when id is
\* not a confirmed or pending row of view
FailedCancelOutcome(id, view) ==
  [status |-> 404, error |-> "Booking not found or cannot be cancelled."]

\* C12 (SpecOps): a cancel of an id that does not exist, of another user's
\* booking, or of an own booking that is not confirmed or pending is answered
\* with an outcome that depends only on the id and the caller's own rows, and so
\* is the same in states that differ only in other users' bookings; it is the
\* same outcome in all three cases.
C12_FailedCancelTellsNothing ==
  [][\A id \in RequestIds, u \in ConcUsers :
       (/\ Cancel(id, u)
        /\ ~(id \in DOMAIN OwnView(u) /\ OwnView(u)[id].status \in {"confirmed", "pending"}))
       => /\ httpResp' = FailedCancelOutcome(id, OwnView(u))
          /\ httpResp' = FailedCancelOutcome(0, << >>)
          /\ bookings' = bookings]_vars

\* a cancel was answered with the failed outcome while the table holds a booking
\* of another user and a cancelled booking
C12_Witness ==
  /\ httpResp # None /\ httpResp.status = 404
  /\ httpResp.error = "Booking not found or cannot be cancelled."
  /\ Len(bookings) = 2
  /\ bookings[1].user_id # bookings[2].user_id
  /\ bookings[1].status = "cancelled" /\ bookings[2].status = "confirmed"

\* some confirmed booking of the facility of r overlaps the interval of r
OverlapsConfirmed(r) ==
  \E i \in 1..Len(bookings) :
    /\ bookings[i].facility_id = r.facilityId
    /\ bookings[i].status = "confirmed"
    /\ bookings[i].start_time < r.endTime /\ r.startTime < bookings[i].end_time

\* C13 as claimed (SpecAdm): a valid createBooking request whose interval overlaps
\* a confirmed booking of the same facility is answered with HTTP status 409 and
\* creates no booking.
C13_ConflictAnswered409 ==
  [][\A p \in Procs :
       (/\ Answered(p)
        /\ resp'[p].req.startTime >= now
        /\ resp'[p].req.startTime < resp'[p].req.endTime
        /\ OverlapsConfirmed(resp'[p].req))
       => resp'[p].status = 409 /\ bookings' = bookings]_vars

\* a cancelled booking of the facility of r has exactly the interval of r
SameSlotCancelled(r) ==
  \E i \in 1..Len(bookings) :
    /\ bookings[i].facility_id = r.facilityId
    /\ bookings[i].start_time = r.startTime /\ bookings[i].end_time = r.endTime
    /\ bookings[i].status = "cancelled"

\* every booking of the facility of r that overlaps the interval of r is cancelled
OnlyCancelledOverlap(r) ==
  \A i \in 1..Len(bookings) :
    (/\ bookings[i].facility_id = r.facilityId
     /\ bookings[i].start_time < r.endTime /\ r.startTime < bookings[i].end_time)
    => bookings[i].status = "cancelled"

Members == {c \in DOMAIN UserDirectory : UserDirectory[c] \notin {"admin", "staff"}}

\* C15 (SpecOps): a caller who is neither admin nor staff never receives the data
\* of a booking owned by another user: getBooking of such a booking answers 403
\* or 404 and carries no booking, and the booking a lookup or a cancel returns to
\* such a caller is the caller's own.
C15_NoForeignBookingData ==
  [][\A c \in Members \cap {"u1", "u2"}, id \in RequestIds :
       /\ (GetBooking(c, id) /\ id \in 1..Len(bookings) /\ bookings[id].user_id # c)
            => /\ httpResp'.status \in {403, 404}
               /\ "booking" \notin DOMAIN httpResp'
       /\ ((GetBooking(c, id) \/ Cancel(id, c)) /\ "booking" \in DOMAIN httpResp')
            => httpResp'.booking.user_id = c]_vars

\* a lookup was refused while the table holds a booking
C15_Witness ==
  /\ httpResp # None /\ httpResp.status = 403
  /\ httpResp.error = "Access denied."
  /\ \E i \in 1..Len(bookings) : bookings[i].status = "confirmed"

\* rows of the facility of r that are confirmed or pending and overlap r
LiveOverlaps(r) ==
  {i \in 1..Len(bookings) :
     /\ bookings[i].facility_id = r.facilityId
     /\ bookings[i].status \in {"confirmed", "pending"}
     /\ bookings[i].start_time < r.endTime /\ r.startTime < bookings[i].end_time}

C17_OnlyListedTransitions ==
  [][\A i \in 1..Len(bookings) :
       bookings'[i].status # bookings[i].status
       => \/ bookings[i].status = "confirmed" /\ bookings'[i].status \in {"completed", "no_show"}
          \/ bookings'[i].status = "cancelled"]_vars

\* C18 as claimed (SpecSlotsAny): every getAvailableSlots call ends with an answer,
\* and for a facility whose booking_duration_minutes is 0 the answer is an error,
\* not a slot list.
C18_SlotsTerminateOrFailFast ==
  slotsResp # None
  => /\ slotsResp.status # 0
     /\ (/\ slotsResp.facilityId \in DOMAIN facilities
         /\ facilities[slotsResp.facilityId].booking_duration_minutes = 0)
        => slotsResp.status \notin {0, 200}

\* the operating hours of facility row fac do not open before they close
OpensAtOrAfterClose(fac) ==
  fac.operating_hours_start[1] * 60 + fac.operating_hours_start[2]
    >= fac.operating_hours_end[1] * 60 + fac.operating_hours_end[2]

\* C19 (SpecSlots): for a facility whose operating_hours_start is at or after its
\* operating_hours_end, with a positive duration, getAvailableSlots returns an
\* empty slot sequence.
C19_NoSlotsWhenHoursInverted ==
  (/\ slotsResp # None /\ slotsResp.status = 200
   /\ OpensAtOrAfterClose(facilities[slotsResp.facilityId])
   /\ facilities[slotsResp.facilityId].booking_duration_minutes > 0)
  => slotsResp.availableSlots = << >>

\* the slots of a facility that opens when it closes were asked for and answered
C19_Witness ==
  /\ slotsResp # None /\ slotsResp.status = 200
  /\ facilities[slotsResp.facilityId].operating_hours_start
       = facilities[slotsResp.facilityId].operating_hours_end
  /\ slotsResp.availableSlots = << >>

\* [s, e) and [S, E) overlap as half-open intervals
HalfOpenOverlap(s, e, S, E) == s < E /\ S < e

\* C20 (SpecConflict): for an existing booking [s, e) and a requested interval
\* [S, E) with s < e and S < E the three-disjunct conflict predicate of the
\* conflict query, and of the row trigger, is true exactly when s < E and S < e;
\* intervals that only touch at an endpoint do not conflict.
C20_ThreeDisjunctsAreHalfOpenOverlap ==
  /\ [](\A p \in Procs, i \in 1..Len(bookings) :
          (/\ pc[p] # "idle"
           /\ bookings[i].start_time < bookings[i].end_time
           /\ req[p].startTime < req[p].endTime
           /\ bookings[i].facility_id = req[p].facilityId
           /\ bookings[i].status = "confirmed")
          => /\ ConflictsWith(bookings[i], req[p].facilityId, req[p].startTime, req[p].endTime)
                  <=> HalfOpenOverlap(bookings[i].start_time, bookings[i].end_time,
                                      req[p].startTime, req[p].endTime)
             /\ (/\ overlapTrigger
                 /\ Len(bookings) = 1)
                => (TriggerRaises(NewRow(req[p]), 0)
                      <=> HalfOpenOverlap(bookings[i].start_time, bookings[i].end_time,
                                          req[p].startTime, req[p].endTime)))
  /\ [][\A p \in Procs :
          (pc[p] = "availabilityQuery" /\ pc'[p] # "availabilityQuery" /\ Len(bookings) = 1)
          => ((pc'[p] = "rollback" /\ err'[p] = "conflict")
                <=> HalfOpenOverlap(bookings[1].start_time, bookings[1].end_time,
                                    req[p].startTime, req[p].endTime))]_vars

\* a request that starts where the booking ends passed the conflict query
C20_Witness ==
  /\ Len(bookings) = 1
  /\ pc["p1"] = "facilityQuery"
  /\ bookings[1].end_time = req["p1"].startTime

\* time-of-day t lies in the operating window of facility row fac
InsideHours(t, fac) ==
  /\ ~StrLess(FormatHHmmss(t), fac.operating_hours_start)
  /\ ~StrLess(fac.operating_hours_end, FormatHHmmss(t))

\* C21 (SpecAdm): a request whose start or end time-of-day lies outside
\* [operating_hours_start, operating_hours_end] is never admitted, so every
\* committed booking starts and ends inside its facility's operating window.
C21_BookingsInsideOperatingHours ==
  \A i \in BookingIds :
    bookings[i].facility_id \in DOMAIN facilities =>
      /\ InsideHours(bookings[i].start_time, facilities[bookings[i].facility_id])
      /\ InsideHours(bookings[i].end_time, facilities[bookings[i].facility_id])

\* the first check request r fails among those that read no booking row, in the
\* order Booking.create runs them; "none" when it passes them all
FirstStaticViolation(r) ==
  IF ~(r.startTime >= now /\ r.endTime >= r.startTime) THEN "validation"
  ELSE IF ~(r.facilityId \in DOMAIN facilities /\ facilities[r.facilityId].status = "available")
  THEN "facility"
  ELSE IF r.endTime - r.startTime # facilities[r.facilityId].booking_duration_minutes
  THEN "duration"
  ELSE IF ~InsideHours(r.startTime, facilities[r.facilityId]) THEN "hours"
  ELSE IF Considered(r.userId) = {} THEN "membership"
  ELSE IF Unentitled(r) THEN "entitlement"
  ELSE IF DaysFromToday(r.startTime) > MaxDaysAhead(r.userId) THEN "advance"
  ELSE "none"

FacilityUnavailable(r) ==
  \/ r.facilityId \notin DOMAIN facilities
  \/ facilities[r.facilityId].status # "available"

\* C23 (SpecFacility): when the facility query of a createBooking call finds
\* no row for the facility, or a row whose status is maintenance or closed, the
\* call fails with the facility-unavailable error and writes nothing; a booking
\* is only committed by a call whose facility query read an available facility.
C23_UnavailableFacilityNeverBooked ==
  /\ [](\A p \in Procs :
          pc[p] \in {"membershipQuery", "facilityTypeQuery", "dailyBookingsQuery",
                     "insertQuery", "commit"}
            => facility[p] # None /\ facility[p].status = "available")
  /\ [][\A p \in Procs :
          /\ (pc[p] = "facilityQuery" /\ pc'[p] # "facilityQuery" /\ FacilityUnavailable(req[p]))
             => pc'[p] = "rollback" /\ err'[p] = "facility"
          /\ (pc[p] = "rollback" /\ err[p] = "facility" /\ pc'[p] # "rollback")
             => /\ Answers(p, 400) /\ resp'[p].error = "facility"
                /\ bookings' = bookings
          /\ Answers(p, 201) => facility[p] # None /\ facility[p].status = "available"]_vars

\* a request for f1 was answered with the facility error after f1, which holds
\* a booking, went into maintenance
C23_Witness ==
  /\ resp["p1"] # None
  /\ resp["p1"].error = "facility"
  /\ resp["p1"].req.facilityId = "f1"
  /\ facilities["f1"].status = "maintenance"
  /\ \E i \in BookingIds : bookings[i].facility_id = "f1"

\* handler p leaves the query named at
Leaves(p, at) == pc[p] = at /\ pc'[p] # at

\* C24 (SpecStaff): a createBooking call whose request passes every check and
\* whose interval overlaps no confirmed or pending booking of the facility is
\* never rejected: each query lets it pass, the INSERT writes its one row with
\* status confirmed, and the call is answered 201 with that row committed.
C24_NoSpuriousRejection ==
  [][\A p \in Procs :
       /\ (Leaves(p, "availabilityQuery") /\ SlotFree(req[p]))
          => pc'[p] = "facilityQuery"
       /\ (Leaves(p, "facilityQuery") /\ PassesFacilityChecks(req[p]))
          => pc'[p] = "membershipQuery"
       /\ (Leaves(p, "membershipQuery") /\ Considered(req[p].userId) # {})
          => pc'[p] = "facilityTypeQuery"
       /\ (Leaves(p, "facilityTypeQuery") /\ ~Unentitled(req[p]))
          => pc'[p] = "dailyBookingsQuery"
       /\ (/\ Leaves(p, "dailyBookingsQuery")
           /\ OwnCount(req[p].userId, req[p].startTime) < MaxPerDay(req[p].userId)
           /\ DaysFromToday(req[p].startTime) <= MaxDaysAhead(req[p].userId))
          => pc'[p] = "insertQuery"
       /\ (Leaves(p, "insertQuery") /\ SlotFree(req[p]))
          => pc'[p] = "commit" /\ inserted'[p] = <<NewRow(req[p])>>
       /\ Leaves(p, "commit")
          => Answers(p, 201) /\ bookings' = Append(bookings, NewRow(req[p]))]_vars

\* user u holds an active, unexpired membership that is not the newest such one
\* and grants the type of facility f
OlderGrants(u, f) ==
  \E i \in 1..Len(memberships) :
    /\ memberships[i].user_id = u
    /\ memberships[i].status = "active" /\ memberships[i].end_date >= Today
    /\ i \notin Considered(u)
    /\ facilities[f].type \in memberships[i].facilities_access

\* C25 (SpecMulti): of several memberships of a user that are active and not
\* past their end date, createBooking reads entitlement, daily limit and advance
\* window from the most recently created one only; an older one that grants the
\* facility does not admit a request the newest one refuses.
C25_NewestMembershipOnly ==
  /\ [](\A p \in Procs :
          /\ pc[p] \in {"facilityTypeQuery", "dailyBookingsQuery", "insertQuery", "commit"}
             => /\ Considered(req[p].userId) # {}
                /\ membership[p] = memberships[CHOOSE i \in Considered(req[p].userId) : TRUE]
          /\ pc[p] \in {"dailyBookingsQuery", "insertQuery", "commit"}
             => ~Unentitled(req[p])
          /\ (resp[p] # None /\ resp[p].status = 201)
             => /\ ~Unentitled(resp[p].req)
                /\ DaysFromToday(resp[p].req.startTime) <= MaxDaysAhead(resp[p].req.userId))
  /\ [][\A p \in Procs :
          /\ Leaves(p, "facilityTypeQuery")
             => ((pc'[p] = "rollback" /\ err'[p] = "entitlement") <=> Unentitled(req[p]))
          /\ Leaves(p, "dailyBookingsQuery")
             => /\ (pc'[p] = "rollback" /\ err'[p] = "dailyLimit")
                     <=> OwnCount(req[p].userId, req[p].startTime) >= MaxPerDay(req[p].userId)
                /\ pc'[p] = "insertQuery"
                     => DaysFromToday(req[p].startTime) <= MaxDaysAhead(req[p].userId)]_vars

\* a request for the tennis court was refused for lack of entitlement although
\* an older active membership of the user grants tennis courts
C25_Witness ==
  /\ resp["p1"] # None
  /\ resp["p1"].error = "entitlement"
  /\ OlderGrants(resp["p1"].req.userId, resp["p1"].req.facilityId)

\* rows of the table that differ between the two states of a step
ChangedRows == {i \in BookingIds : i > Len(bookings') \/ bookings'[i] # bookings[i]}

\* C26 (SpecMutate): no step removes a booking or changes the user, facility,
\* start or end of one; a cancel or status update changes the status of the one
\* booking it names and leaves every other booking as it was, and a commit of
\* createBooking only appends.
C26_OnlyStatusOfTargetChanges ==
  [][/\ Len(bookings') >= Len(bookings)
     /\ \A i \in BookingIds :
          bookings'[i] = [bookings[i] EXCEPT !.status = bookings'[i].status]
     /\ Cardinality(ChangedRows) <= 1
     /\ \A i \in ChangedRows :
          /\ Len(bookings') = Len(bookings)
          /\ httpResp' # None /\ httpResp'.status = 200
          /\ httpResp'.id = i
          /\ httpResp'.booking = bookings'[i]]_vars

\* the second of two bookings was cancelled by its owner or updated by staff
\* while the first is still confirmed
C26_Witness ==
  /\ Len(bookings) = 2
  /\ httpResp # None /\ httpResp.status = 200
  /\ httpResp.id = 2
  /\ bookings[2].status \in {"cancelled", "no_show"}
  /\ bookings[1].status = "confirmed"

\* the confirmed bookings of user u that start on calendar day date
ConfirmedOn(u, date) ==
  {i \in BookingIds :
     /\ bookings[i].user_id = u
     /\ bookings[i].status = "confirmed"
     /\ DateOf(bookings[i].start_time) = date}

\* C27 (SpecCreate): after any interleaving of concurrent createBooking calls of
\* one user for different facilities or non-overlapping times of one date, the
\* user holds at most max_bookings_per_day confirmed bookings on that date.
C27_DailyLimitUnderConcurrency ==
  \A u \in ConcUsers, date \in {Today, Today + 1} :
    (/\ Considered(u) # {}
     /\ \A i, j \in ConfirmedOn(u, date) :
          i # j => \/ bookings[i].facility_id # bookings[j].facility_id
                   \/ ~Overlap(bookings[i], bookings[j]))
    => Cardinality(ConfirmedOn(u, date)) <= MaxPerDay(u)

\* C28 (SpecNotes): a step of updateBookingStatus that answers with an error
\* (status 400 or above) leaves every stored booking, and so its status, as it
\* was before the request.
C28_ErrorLeavesStatusUnchanged ==
  [][(/\ txVars' = txVars
      /\ httpResp' # None
      /\ httpResp'.status >= 400)
     => bookings' = bookings]_vars

\* booking row b has the start and the end of one slot getAvailableSlots
\* generates for its facility and date
IsGeneratedSlot(b) ==
  LET r == AvailableSlots(b.facility_id, DateOf(b.start_time)) IN
  \E k \in 1..Len(r.slots) :
    /\ r.slots[k].startTime = b.start_time
    /\ r.slots[k].endTime = b.end_time

\* C29 (SpecOrder): every committed booking has the start and end of one slot of
\* the partition getAvailableSlots generates for its facility and date, so two
\* confirmed bookings of one facility on one day are at least
\* booking_buffer_minutes apart.
C29_BookingsAreGeneratedSlots ==
  /\ \A i \in BookingIds : IsGeneratedSlot(bookings[i])
  /\ \A i, j \in BookingIds :
       (/\ i # j
        /\ bookings[i].facility_id = bookings[j].facility_id
        /\ bookings[i].status = "confirmed" /\ bookings[j].status = "confirmed"
        /\ bookings[i].start_time <= bookings[j].start_time)
       => bookings[j].start_time - bookings[i].end_time
            >= facilities[bookings[i].facility_id].booking_buffer_minutes

\* handler p waits in its conflict query for a row another transaction holds
WaitsForRowLock(p) ==
  /\ pc[p] = "availabilityQuery"
  /\ ConflictingBookings(req[p].facilityId, req[p].startTime, req[p].endTime)
       \cap LockedByOther(p) # {}

\* C30 (SpecLive): under fair scheduling every createBooking call finishes, by
\* commit or by rollback; no call waits forever for the row locks the conflict
\* query of another call took, whatever cancels run meanwhile.
C30_EveryCallFinishes ==
  \A p \in Procs : (pc[p] # "idle") ~> (pc[p] = "idle")

\* one call waits for the row its conflict query matches while the other call
\* holds that row locked
C30_Witness ==
  /\ WaitsForRowLock("p2")
  /\ locked["p1"] # {}
  /\ pc["p1"] = "rollback"

====
